---------------------------- MODULE Spec2Model ----------------------------
(***************************************************************************)
(* Model of darkcode_server.web_admin.WebAdminHandler: the class-level PIN, *)
(* the per-instance set of authenticated session cookies and the request    *)
(* router handle_request.                                                   *)
(*                                                                          *)
(* Python strings are sequences of one-character strings; a session token   *)
(* (secrets.token_urlsafe(32), 43 characters) is one opaque symbol.  None   *)
(* is the one-element sequence <<"None">>, which is no string of the model. *)
(* A dict is a function whose DOMAIN is its key set.                        *)
(***************************************************************************)
EXTENDS Integers, Sequences, FiniteSets, TLC

\* ------------------------------------------------------------- bounds
NumHandlers == 2      \* WebAdminHandler instances the process constructs
MaxTokens   == 2      \* session tokens token_urlsafe can hand out in a run
PinLen      == 1      \* digits of a PIN (6 in the source)
MaxStrLen   == 3      \* longest input of the stand-alone _verify_pin calls

\* ------------------------------------------------------------- values
None == <<"None">>

Digits     == {"0", "1"}
Whitespace == {" "}
NonAscii   == {"U+00E9"}
Alphabet   == Digits \cup Whitespace \cup NonAscii

StrUpTo(n) == UNION {[1..k -> Alphabet] : k \in 0..n}

TokenNames == <<"tokA", "tokB", "tokC", "tokD">>
TokenSpace == {<<TokenNames[i]>> : i \in 1..MaxTokens}

Handlers == 1..NumHandlers

SESSION_COOKIE == "darkcode_admin_session"

\* config.token, the WebSocket auth token, and a string that is not it;
\* each is one opaque symbol
AuthToken  == <<"config.token">>
WrongToken == <<"not config.token">>

VARIABLES
    web_pin,       \* WebAdminHandler._web_pin (class attribute): None or a PIN
    constructed,   \* the handler instances that exist
    sessions,      \* sessions[h]: h._authenticated_sessions
    server,        \* server[h]: h.server (None or the server object)
    config,        \* the config object the handlers were given
    minted,        \* every token _generate_session_cookie has returned
    last           \* the call handled last: its inputs and what it returned

\* The interactive menus (prompt_ui.py, both implementations) and the config
\* file they edit.  In the menu specification `last` is the last key or
\* menu choice handled.
VARIABLES
    saved_config,     \* the config file: what ServerConfig.load() returns
    selected_index,   \* SplitPaneTUI.selected_index
    current_submenu,  \* SplitPaneTUI.current_submenu
    running,          \* SplitPaneTUI.running
    output_lines,     \* SplitPaneTUI.output_lines: the kinds of line it holds
    app_result,       \* what SplitPaneTUI.app.run() returns once exit is called
    menu_at,          \* where the loop of the simple-term-menu version stands
    menu_result       \* what its run_interactive_menu returned or raised

webvars  == <<web_pin, constructed, sessions, server, config, minted>>
menuvars == <<saved_config, selected_index, current_submenu, running,
              output_lines, app_result, menu_at, menu_result>>

vars == <<web_pin, constructed, sessions, server, config, minted, last,
          saved_config, selected_index, current_submenu, running,
          output_lines, app_result, menu_at, menu_result>>

\* ------------------------------------------------------------- PIN
\* generate_web_pin: PinLen digits, each drawn by secrets.randbelow
PINs == [1..PinLen -> Digits]

RECURSIVE LStrip(_)
LStrip(s) ==
    IF Len(s) > 0 /\ Head(s) \in Whitespace THEN LStrip(Tail(s)) ELSE s

RECURSIVE RStrip(_)
RStrip(s) ==
    IF Len(s) > 0 /\ s[Len(s)] \in Whitespace
    THEN RStrip(SubSeq(s, 1, Len(s) - 1))
    ELSE s

\* str.strip()
Strip(s) == RStrip(LStrip(s))

IsAscii(s) == \A i \in 1..Len(s) : s[i] \notin NonAscii

Returned(v) == [exc |-> "", value |-> v]
Raised(e)   == [exc |-> e, value |-> FALSE]

\* hmac.compare_digest on two str: TypeError unless both are ASCII
CompareDigest(a, b) ==
    IF IsAscii(a) /\ IsAscii(b) THEN Returned(a = b) ELSE Raised("TypeError")

VerifyPin_Prefix(pin, cur) ==
    IF cur = None THEN Returned(FALSE)
    ELSE LET t == Strip(pin) IN
         CompareDigest(IF Len(t) > Len(cur) THEN SubSeq(t, 1, Len(cur)) ELSE t, cur)

VerifyPin_NoStrip(pin, cur) ==
    IF cur = None THEN Returned(FALSE) ELSE CompareDigest(pin, cur)

\* WebAdminHandler._verify_pin, cur being WebAdminHandler._web_pin
VerifyPin(pin, cur) ==
    IF cur = None THEN Returned(FALSE) ELSE CompareDigest(Strip(pin), cur)


\* ------------------------------------------------------------- cookies
Cookie(k, v) == [eq |-> TRUE, key |-> k, value |-> v]
NoEquals     == [eq |-> FALSE, key |-> "junk", value |-> <<>>]

\* WebAdminHandler._parse_cookies.  The header is the list of its
\* ';'-separated items, each already stripped; an item without '=' is
\* skipped and a later item overwrites an earlier one of the same key.
RECURSIVE ParseCookies(_)
ParseCookies(items) ==
    IF Len(items) = 0 THEN <<>>
    ELSE LET rest == ParseCookies(SubSeq(items, 1, Len(items) - 1))
             item == items[Len(items)]
         IN  IF item.eq
             THEN [k \in DOMAIN rest \cup {item.key} |->
                      IF k = item.key THEN item.value ELSE rest[k]]
             ELSE rest

\* dict.get(key) and dict.get(key, default)
DictGet(d, k, default) == IF k \in DOMAIN d THEN d[k] ELSE default

IsAuthenticated_AnyCookie(cookies, sess) ==
    DictGet(cookies, SESSION_COOKIE, None) # None

\* WebAdminHandler._is_authenticated
IsAuthenticated(cookies, sess) ==
    DictGet(cookies, SESSION_COOKIE, None) \in sess

\* ------------------------------------------------------------- form data
Field(k, v) == [key |-> k, value |-> v]

\* WebAdminHandler._parse_form_data for a body of fields with distinct
\* keys: parse_qs drops a field whose value is blank, and a key with one
\* value maps to that value.
RECURSIVE ParseFormData(_)
ParseFormData(fields) ==
    IF Len(fields) = 0 THEN <<>>
    ELSE LET rest == ParseFormData(Tail(fields))
             f    == Head(fields)
         IN  IF Len(f.value) = 0 THEN rest
             ELSE [k \in DOMAIN rest \cup {f.key} |->
                      IF k = f.key THEN f.value ELSE rest[k]]

\* the pin parameter of the query string as parse_qs delivers it (the
\* first value; a blank one is dropped), <<>> when there is none
QueryPin(query_params) ==
    IF "pin" \in DOMAIN query_params THEN query_params["pin"][1] ELSE <<>>

\* the pin field of the form body, <<>> when there is none
BodyPin(body) ==
    IF Len(body) > 0 THEN DictGet(ParseFormData(body), "pin", <<>>) ELSE <<>>

LoginPin_BodyFirst(query_params, body) ==
    IF BodyPin(body) # <<>> THEN BodyPin(body) ELSE QueryPin(query_params)

\* handle_request, lines 490-495: the PIN of a login request
LoginPin(query_params, body) ==
    IF "pin" \in DOMAIN query_params THEN query_params["pin"][1]
    ELSE IF Len(body) > 0 THEN DictGet(ParseFormData(body), "pin", <<>>)
    ELSE <<>>

\* The `token` parameter of a request as parse_qs delivers it, from the
\* query or else from the body; None when the request has none.
\* handle_request reads no such parameter.
TokenParam(query_params, body) ==
    IF "token" \in DOMAIN query_params THEN query_params["token"][1]
    ELSE IF Len(body) > 0 THEN DictGet(ParseFormData(body), "token", None)
    ELSE None

\* ------------------------------------------------------------- responses
Response(status, headers, body) ==
    [exc |-> "", status |-> status, headers |-> headers, body |-> body]

\* the call raised: there is no (status, headers, body) triple
Raise(e) ==
    [exc |-> e, status |-> 0, headers |-> <<>>, body |-> [kind |-> "none"]]

\* a JSON body: json.dumps of a dict, the dict being a record
Json(obj) == [kind |-> "json", json |-> obj]

\* server_instance: None, or the server object with its sessions and state
NoServer      == [none |-> TRUE]
ServerObjects == {[none |-> FALSE, sessions |-> 1, state |-> "running"]}

\* `self.server and hasattr(self.server, ...)`
HasAttrs(srv) == ~srv.none

CookieAttrs_NoHttpOnly == {"SameSite=Strict", "Path=/admin"}

\* handle_request, lines 505 and 523: the attributes of both Set-Cookie headers
CookieAttrs == {"HttpOnly", "SameSite=Strict", "Path=/admin"}

SetCookie(value, attrs) ==
    [name |-> SESSION_COOKIE, value |-> value, attrs |-> attrs]

\* WebAdminHandler._login_page
LoginPage(error) ==
    Response(200, "Content-Type" :> "text/html",
             [kind |-> "login_page", error |-> error])

\* WebAdminHandler._serve_logo
ServeLogo ==
    Response(200,
             ("Content-Type" :> "image/png") @@ ("Cache-Control" :> "max-age=3600"),
             [kind |-> "logo_png"])

\* The wall clock is not part of the model: the uptime is the symbol below.
Uptime == "int(time.time() - start_time)"

\* WebAdminHandler._dashboard_page
DashboardPage(srv, cfg) ==
    Response(200, "Content-Type" :> "text/html",
             [kind          |-> "dashboard",
              uptime        |-> Uptime,
              port          |-> cfg.port,
              state         |-> IF HasAttrs(srv) THEN srv.state ELSE "running",
              device_lock   |-> IF cfg.device_lock THEN "Enabled" ELSE "Disabled",
              tls_status    |-> IF cfg.tls_enabled THEN "Enabled (wss://)"
                                                   ELSE "Disabled (ws://)",
              session_count |-> IF HasAttrs(srv) THEN srv.sessions ELSE 0,
              token_full    |-> cfg.token])

ApiStatus_NoState(srv, cfg) ==
    Response(200, "Content-Type" :> "application/json",
             Json([uptime_seconds |-> Uptime,
                   port           |-> cfg.port,
                   session_count  |-> IF HasAttrs(srv) THEN srv.sessions ELSE 0,
                   device_lock    |-> cfg.device_lock,
                   tls_enabled    |-> cfg.tls_enabled]))

\* WebAdminHandler._api_status: the JSON object is a record
ApiStatus(srv, cfg) ==
    Response(200, "Content-Type" :> "application/json",
             Json([uptime_seconds |-> Uptime,
                   port           |-> cfg.port,
                   session_count  |-> IF HasAttrs(srv) THEN srv.sessions ELSE 0,
                   state          |-> IF HasAttrs(srv) THEN srv.state ELSE "unknown",
                   device_lock    |-> cfg.device_lock,
                   tls_enabled    |-> cfg.tls_enabled]))

\* handle_request, line 530
Unauthorized ==
    Response(401, "Content-Type" :> "application/json",
             Json([error |-> "Unauthorized"]))

NotFound_LoginPage ==
    Response(200, "Content-Type" :> "text/html",
             [kind |-> "login_page", error |-> ""])

\* handle_request, line 534
NotFound ==
    Response(404, "Content-Type" :> "text/html", [kind |-> "Not Found"])

\* handle_request, lines 501-508
LoginRedirect(tok) ==
    Response(302,
             ("Location" :> "/admin") @@ ("Set-Cookie" :> SetCookie(tok, CookieAttrs)),
             [kind |-> "empty"])

LogoutRedirect_KeepCookie ==
    Response(302, "Location" :> "/admin", [kind |-> "empty"])

\* handle_request, lines 519-526
LogoutRedirect ==
    Response(302,
             ("Location" :> "/admin")
                 @@ ("Set-Cookie" :> SetCookie(<<>>, CookieAttrs \cup {"Max-Age=0"})),
             [kind |-> "empty"])

\* ------------------------------------------------------------- requests
Paths == {"/admin", "/admin/", "/admin/logo", "/admin/login",
          "/admin/logout", "/admin/api/status", "/admin/other"}

Methods == {"GET", "POST"}

\* PINs a client submits: each PIN bare and padded with blanks, a blank
\* string, a non-ASCII string, and PINs with a character too many
PinInputs ==
    UNION {{p, <<" ">> \o p, p \o <<" ">>, <<" ">> \o p \o <<" ">>,
            p \o <<"0">>, p \o <<"U+00E9">>} : p \in PINs}
        \cup {<<" ">>, <<"U+00E9">>}

\* parse_qs of the query string: a dict of lists, blank values dropped
QueryParams == {<<>>} \cup {"pin" :> <<s>> : s \in PinInputs}

\* the request body as its list of form fields; <<>> is b''
Bodies == {<<>>} \cup {<<Field("pin", s)>> : s \in PinInputs \cup {<<>>}}
              \cup {<<Field("user", <<"0">>)>>}

\* login requests that carry a `token` parameter, alone or next to a PIN
TokenParams      == {AuthToken, WrongToken}
TokenQueryParams ==
    {("token" :> <<t>>) @@ q :
         t \in TokenParams, q \in {<<>>} \cup {"pin" :> <<p>> : p \in PINs}}
TokenBodies ==
    {<<Field("token", t)>> : t \in TokenParams}
        \cup {<<Field("pin", p), Field("token", t)>> : p \in PINs, t \in TokenParams}

CookieValues == TokenSpace \cup {<<>>}
SessionItems == {Cookie(SESSION_COOKIE, v) : v \in CookieValues}
OtherItems   == {Cookie("theme", <<"0">>), NoEquals}

\* Cookie headers: none, one item, or two items the second of which is a
\* session cookie
CookieHeaders ==
    {<<>>} \cup {<<i>> : i \in SessionItems \cup OtherItems}
           \cup {<<i, j>> : i \in SessionItems \cup OtherItems, j \in SessionItems}

Request(path, method, cookie_header, query_params, body) ==
    [clean_path |-> path, method |-> method, cookie_header |-> cookie_header,
     query_params |-> query_params, body |-> body]

\* a login with a well-formed PIN in the query
PinLogins == {Request("/admin/login", "GET", <<>>, "pin" :> <<p>>, <<>>) : p \in PINs}

\* The requests of the model.  A login request carries its PIN in the query
\* or in the body (or a PIN in both, the one of the body well-formed,
\* the one of the query also blank or non-ASCII), possibly with a `token`
\* parameter next to it, and one from a client that holds a session cookie
\* carries no PIN or a well-formed one.  Every other request carries a
\* Cookie header.  /admin/other and /admin/login/ (the login path with a
\* slash too many, sent with a PIN) are paths the router does not know.
Requests ==
    {Request("/admin/login", m, <<>>, q, <<>>) : m \in Methods, q \in QueryParams}
    \cup {Request("/admin/login", m, <<>>, <<>>, b) : m \in Methods, b \in Bodies}
    \cup {Request("/admin/login", "POST", <<>>, "pin" :> <<q>>, <<Field("pin", b)>>) :
              q \in PINs \cup {<<" ">>, <<"U+00E9">>}, b \in PINs}
    \cup {Request("/admin/login", "GET", <<Cookie(SESSION_COOKIE, v)>>, q, <<>>) :
              v \in TokenSpace, q \in {<<>>} \cup {"pin" :> <<p>> : p \in PINs}}
    \cup {Request("/admin/login", "GET", <<>>, q, <<>>) : q \in TokenQueryParams}
    \cup {Request("/admin/login", "POST", <<>>, <<>>, b) : b \in TokenBodies}
    \cup {Request("/admin/login/", "GET", c, "pin" :> <<p>>, <<>>) :
              c \in {<<>>} \cup {<<Cookie(SESSION_COOKIE, v)>> : v \in TokenSpace},
              p \in PINs}
    \cup {Request(p, m, c, <<>>, <<>>) :
              p \in Paths \ {"/admin/login"}, m \in Methods, c \in CookieHeaders}

\* ------------------------------------------------------------- menus
\* SplitPaneTUI.__init__: the menus, each entry by its action name
main_menu ==
    <<"start", "status", "qr", "guest", "config", "security", "setup", "quit">>
guest_menu ==
    <<"guest_create", "guest_list", "guest_revoke", "guest_qr", "back">>
connection_menu ==
    <<"direct", "tailscale", "ssh", "back">>
security_menu ==
    <<"security_status", "security_tls", "security_mtls", "security_device_lock",
      "security_reset_token", "security_blocked", "security_unbind", "back">>

\* current_submenu = None: the main menu is shown
NoSubmenu == "None"

\* SplitPaneTUI.current_menu
CurrentMenu(submenu) ==
    IF submenu = "guest" THEN guest_menu
    ELSE IF submenu = "connection" THEN connection_menu
    ELSE IF submenu = "security" THEN security_menu
    ELSE main_menu

\* What run_interactive_menu hands back: nothing yet, None, a tuple
\* (action, mode), or an exception that leaves it
Pending          == [kind |-> "pending"]
ReturnsNone      == [kind |-> "None"]
ReturnsTuple(a, m) == [kind |-> "tuple", action |-> a, mode |-> m]
Raises(e)        == [kind |-> "raised", exc |-> e]

\* The flags of the config file that the menus toggle
SavedConfigs ==
    [tls_enabled : BOOLEAN, mtls_enabled : BOOLEAN, device_lock : BOOLEAN]
DefaultConfig ==
    [tls_enabled |-> FALSE, mtls_enabled |-> FALSE, device_lock |-> TRUE]

\* SplitPaneTUI.__init__ has run and the loop of the simple-term-menu
\* version is about to show its main menu
MenuStart ==
    /\ selected_index = 0
    /\ current_submenu = NoSubmenu
    /\ running = TRUE
    /\ output_lines = {}
    /\ app_result = Pending
    /\ menu_at = "main"
    /\ menu_result = Pending

\* ------------------------------------------------------------- state
\* The config object (darkcode_server.config.ServerConfig) as far as the
\* handler reads it
Configs ==
    {[port |-> 3100, device_lock |-> TRUE, tls_enabled |-> FALSE, token |-> AuthToken]}

\* The server_instance argument of the constructor: the first instance is
\* built without one (the default, None), the later ones with the server.
ServerArgs(h) == IF h = 1 THEN {NoServer} ELSE ServerObjects

\* generate_web_pin: the PINs it can return
GenerateWebPin == PINs

GenerateSessionCookie_Any == TokenSpace

\* WebAdminHandler._generate_session_cookie: secrets.token_urlsafe(32)
\* returns 256 random bits.  The model takes a value it has not returned
\* before: a repeat has probability 2^-256 and is left out.
GenerateSessionCookie == TokenSpace \ minted

\* No call is in progress: the caller has taken the last result.
Idle == [op |-> "idle"]

Init ==
    /\ web_pin = None
    /\ constructed = {}
    /\ sessions = [h \in Handlers |-> {}]
    /\ server = [h \in Handlers |-> NoServer]
    /\ config \in Configs
    /\ minted = {}
    /\ last = Idle
    /\ MenuStart
    /\ saved_config = DefaultConfig

Construct_InheritsSessions(h, srv) ==
    /\ last = Idle
    /\ h \notin constructed
    /\ h = Cardinality(constructed) + 1
    /\ constructed' = constructed \cup {h}
    /\ sessions' = [sessions EXCEPT ![h] = UNION {sessions[g] : g \in constructed}]
    /\ server' = [server EXCEPT ![h] = srv]
    /\ IF web_pin = None
       THEN \E p \in GenerateWebPin : web_pin' = p
       ELSE web_pin' = web_pin
    /\ last' = [op |-> "__init__", h |-> h, pin_before |-> web_pin]
    /\ UNCHANGED <<config, minted>>
    /\ UNCHANGED menuvars

Construct_NewPin(h, srv) ==
    /\ last = Idle
    /\ h \notin constructed
    /\ h = Cardinality(constructed) + 1
    /\ constructed' = constructed \cup {h}
    /\ sessions' = [sessions EXCEPT ![h] = {}]
    /\ server' = [server EXCEPT ![h] = srv]
    /\ \E p \in GenerateWebPin : web_pin' = p
    /\ last' = [op |-> "__init__", h |-> h, pin_before |-> web_pin]
    /\ UNCHANGED <<config, minted>>
    /\ UNCHANGED menuvars

\* WebAdminHandler.__init__(config, server_instance); instances are
\* numbered in the order of their construction
Construct(h, srv) ==
    /\ last = Idle
    /\ h \notin constructed
    /\ h = Cardinality(constructed) + 1
    /\ constructed' = constructed \cup {h}
    /\ sessions' = [sessions EXCEPT ![h] = {}]
    /\ server' = [server EXCEPT ![h] = srv]
    /\ IF web_pin = None
       THEN \E p \in GenerateWebPin : web_pin' = p
       ELSE web_pin' = web_pin
    /\ last' = [op |-> "__init__", h |-> h, pin_before |-> web_pin]
    /\ UNCHANGED <<config, minted>>
    /\ UNCHANGED menuvars

\* WebAdminHandler.get_web_pin (classmethod)
GetWebPin ==
    /\ last = Idle
    /\ IF web_pin = None
       THEN \E p \in GenerateWebPin : web_pin' = p
       ELSE web_pin' = web_pin
    /\ last' = [op |-> "get_web_pin", pin_before |-> web_pin, value |-> web_pin']
    /\ UNCHANGED <<constructed, sessions, server, config, minted>>
    /\ UNCHANGED menuvars

RegeneratePin_DropsSessions ==
    /\ last = Idle
    /\ \E p \in GenerateWebPin : web_pin' = p
    /\ sessions' = [h \in Handlers |-> {}]
    /\ last' = [op |-> "regenerate_pin", pin_before |-> web_pin, value |-> web_pin']
    /\ UNCHANGED <<constructed, server, config, minted>>
    /\ UNCHANGED menuvars

RegeneratePin_KeepsPin ==
    /\ last = Idle
    /\ \E p \in GenerateWebPin :
           /\ web_pin' = IF web_pin = None THEN p ELSE web_pin
           /\ last' = [op |-> "regenerate_pin", pin_before |-> web_pin, value |-> p]
    /\ UNCHANGED <<constructed, sessions, server, config, minted>>
    /\ UNCHANGED menuvars

\* WebAdminHandler.regenerate_pin (classmethod)
RegeneratePin ==
    /\ last = Idle
    /\ \E p \in GenerateWebPin : web_pin' = p
    /\ last' = [op |-> "regenerate_pin", pin_before |-> web_pin, value |-> web_pin']
    /\ UNCHANGED <<constructed, sessions, server, config, minted>>
    /\ UNCHANGED menuvars

SetAdd_Noop(s, x) == s

SetAdd_Replace(s, x) == {x}

\* set.add
SetAdd(s, x) == s \cup {x}

SetDiscard_Noop(s, x) == s

SetDiscard_Clear(s, x) == {}

\* set.discard
SetDiscard(s, x) == s \ {x}

\* What handle_request leaves behind: the response (or the exception), the
\* handler's session set and the tokens handed out.  `last` keeps the
\* request as the router read it and the session set it started from.
Finish(h, req, resp, sess, mint) ==
    /\ sessions' = [sessions EXCEPT ![h] = sess]
    /\ minted' = mint
    /\ last' = [op         |-> "handle_request",
                h          |-> h,
                path       |-> req.clean_path,
                method     |-> req.method,
                session_id |-> DictGet(ParseCookies(req.cookie_header),
                                       SESSION_COOKIE, None),
                pin        |-> LoginPin(req.query_params, req.body),
                query_pin  |-> QueryPin(req.query_params),
                body_pin   |-> BodyPin(req.body),
                token      |-> TokenParam(req.query_params, req.body),
                before     |-> sessions[h],
                pin_before |-> web_pin,
                resp       |-> resp]
    /\ UNCHANGED <<web_pin, constructed, server, config>>
    /\ UNCHANGED menuvars

LoginRoute_AcceptsToken(h, req) ==
    LET pin   == LoginPin(req.query_params, req.body)
        token == TokenParam(req.query_params, req.body)
    IN
    IF token = config.token
    THEN \E session_cookie \in GenerateSessionCookie :
             Finish(h, req, LoginRedirect(session_cookie),
                    SetAdd(sessions[h], session_cookie),
                    minted \cup {session_cookie})
    ELSE IF Len(pin) > 0
    THEN LET ok == VerifyPin(pin, web_pin) IN
         IF ok.exc # ""
         THEN Finish(h, req, Raise(ok.exc), sessions[h], minted)
         ELSE IF ok.value
         THEN \E session_cookie \in GenerateSessionCookie :
                  Finish(h, req, LoginRedirect(session_cookie),
                         SetAdd(sessions[h], session_cookie),
                         minted \cup {session_cookie})
         ELSE Finish(h, req, LoginPage("Invalid PIN"), sessions[h], minted)
    ELSE Finish(h, req, LoginPage(""), sessions[h], minted)

\* handle_request, lines 488-513: the /admin/login route
LoginRoute(h, req) ==
    LET pin == LoginPin(req.query_params, req.body) IN
    IF Len(pin) > 0
    THEN LET ok == VerifyPin(pin, web_pin) IN
         IF ok.exc # ""
         THEN Finish(h, req, Raise(ok.exc), sessions[h], minted)
         ELSE IF ok.value
         THEN \E session_cookie \in GenerateSessionCookie :
                  Finish(h, req, LoginRedirect(session_cookie),
                         SetAdd(sessions[h], session_cookie),
                         minted \cup {session_cookie})
         ELSE Finish(h, req, LoginPage("Invalid PIN"), sessions[h], minted)
    ELSE Finish(h, req, LoginPage(""), sessions[h], minted)

LogoutRoute_UnknownClears(h, req) ==
    LET session_id == DictGet(ParseCookies(req.cookie_header), SESSION_COOKIE, None) IN
    Finish(h, req, LogoutRedirect,
           IF session_id # None /\ Len(session_id) > 0
           THEN (IF session_id \in sessions[h]
                 THEN SetDiscard(sessions[h], session_id)
                 ELSE {})
           ELSE sessions[h],
           minted)

\* handle_request, lines 515-526: the /admin/logout route
LogoutRoute(h, req) ==
    LET session_id == DictGet(ParseCookies(req.cookie_header), SESSION_COOKIE, None) IN
    Finish(h, req, LogoutRedirect,
           IF session_id # None /\ Len(session_id) > 0
           THEN SetDiscard(sessions[h], session_id)
           ELSE sessions[h],
           minted)

HandleRequest_LoginByPostOnly(h, req) ==
    /\ last = Idle \/ (last.op = "regenerate_pin" /\ req \in PinLogins)
    /\ h \in constructed
    /\ LET cookies == ParseCookies(req.cookie_header)
           path    == req.clean_path
       IN  IF path = "/admin" \/ path = "/admin/"
           THEN Finish(h, req,
                       IF IsAuthenticated(cookies, sessions[h])
                       THEN DashboardPage(server[h], config)
                       ELSE LoginPage(""),
                       sessions[h], minted)
           ELSE IF path = "/admin/logo"
           THEN Finish(h, req, ServeLogo, sessions[h], minted)
           ELSE IF path = "/admin/login"
           THEN IF req.method = "POST"
                THEN LoginRoute(h, req)
                ELSE Finish(h, req, LoginPage(""), sessions[h], minted)
           ELSE IF path = "/admin/logout"
           THEN LogoutRoute(h, req)
           ELSE IF path = "/admin/api/status"
           THEN Finish(h, req,
                       IF ~IsAuthenticated(cookies, sessions[h])
                       THEN Unauthorized
                       ELSE ApiStatus(server[h], config),
                       sessions[h], minted)
           ELSE Finish(h, req, NotFound, sessions[h], minted)

\* WebAdminHandler.handle_request(path, method, headers, body); req holds
\* urlparse(path).path, parse_qs of the query, the Cookie header and the body
HandleRequest(h, req) ==
    /\ last = Idle \/ (last.op = "regenerate_pin" /\ req \in PinLogins)
    /\ h \in constructed
    /\ LET cookies == ParseCookies(req.cookie_header)
           path    == req.clean_path
       IN  IF path = "/admin" \/ path = "/admin/"
           THEN Finish(h, req,
                       IF IsAuthenticated(cookies, sessions[h])
                       THEN DashboardPage(server[h], config)
                       ELSE LoginPage(""),
                       sessions[h], minted)
           ELSE IF path = "/admin/logo"
           THEN Finish(h, req, ServeLogo, sessions[h], minted)
           ELSE IF path = "/admin/login"
           THEN LoginRoute(h, req)
           ELSE IF path = "/admin/logout"
           THEN LogoutRoute(h, req)
           ELSE IF path = "/admin/api/status"
           THEN Finish(h, req,
                       IF ~IsAuthenticated(cookies, sessions[h])
                       THEN Unauthorized
                       ELSE ApiStatus(server[h], config),
                       sessions[h], minted)
           ELSE Finish(h, req, NotFound, sessions[h], minted)

\* The caller takes the result of the call: calls are made one at a time,
\* each handled to completion before the next.  A login with a PIN can
\* also be handled while the PIN regenerate_pin returned is still in its
\* caller's hands (HandleRequest), the case of a login right after a
\* rotation.
Return ==
    /\ last # Idle
    /\ last' = Idle
    /\ UNCHANGED <<web_pin, constructed, sessions, server, config, minted>>
    /\ UNCHANGED menuvars

\* the requests HandleRequest accepts in the current state
Arriving ==
    IF last = Idle THEN Requests
    ELSE IF last.op = "regenerate_pin" THEN PinLogins
    ELSE {}

Next ==
    \/ \E h \in Handlers : \E srv \in ServerArgs(h) : Construct(h, srv)
    \/ GetWebPin
    \/ RegeneratePin
    \/ \E h \in Handlers, req \in Arriving : HandleRequest(h, req)
    \/ Return

Spec == Init /\ [][Next]_vars

\* ------------------------------------------------------------- _verify_pin alone
\* _verify_pin as a function of its argument and of the class attribute,
\* which is None until the first instance is constructed.
InitVerifyPin ==
    /\ web_pin \in PINs \cup {None}
    /\ constructed = {}
    /\ sessions = [h \in Handlers |-> {}]
    /\ server = [h \in Handlers |-> NoServer]
    /\ config \in Configs
    /\ minted = {}
    /\ last = Idle
    /\ MenuStart
    /\ saved_config = DefaultConfig

CallVerifyPin(pin) ==
    /\ last = Idle
    /\ last' = [op |-> "_verify_pin", pin |-> pin, result |-> VerifyPin(pin, web_pin)]
    /\ UNCHANGED <<web_pin, constructed, sessions, server, config, minted>>
    /\ UNCHANGED menuvars

NextVerifyPin ==
    \/ \E pin \in StrUpTo(MaxStrLen) : CallVerifyPin(pin)
    \/ Return

SpecVerifyPin == InitVerifyPin /\ [][NextVerifyPin]_vars

\* ------------------------------------------------------------- properties
\* t is s with its leading and trailing whitespace removed
IsTrimOf(t, s) ==
    \E i \in 0..Len(s), j \in 0..Len(s) :
        /\ i + j <= Len(s)
        /\ t = SubSeq(s, i + 1, Len(s) - j)
        /\ \A k \in 1..i : s[k] \in Whitespace
        /\ \A k \in (Len(s) - j + 1)..Len(s) : s[k] \in Whitespace
        /\ Len(t) > 0 => (t[1] \notin Whitespace /\ t[Len(t)] \notin Whitespace)

\* the state right after handle_request returned (or raised) for path p
Handled(p) == last.op = "handle_request" /\ last.path = p

\* the session cookie a response sets, None when it sets none
CookieSet(resp) ==
    IF "Set-Cookie" \in DOMAIN resp.headers
    THEN resp.headers["Set-Cookie"].value
    ELSE None

\* C1: a token enters a handler's valid-session set only by a /admin/login
\* request to that handler whose PIN, trimmed, equals the PIN current at
\* that moment (the token being the one the response sets as cookie), it is
\* out of the set once a /admin/logout request bearing it is handled, and
\* the sets start empty.
C1_Step ==
    /\ \A h \in Handlers : \A s \in sessions'[h] \ sessions[h] :
           /\ last'.op = "handle_request" /\ last'.h = h
           /\ last'.path = "/admin/login"
           /\ web_pin # None /\ IsTrimOf(web_pin, last'.pin)
           /\ web_pin' = web_pin
           /\ CookieSet(last'.resp) = s
    /\ (last'.op = "handle_request" /\ last'.path = "/admin/logout")
           => last'.session_id \notin sessions'[last'.h]

C1_SessionsOnlyFromVerifiedLogin ==
    (\A h \in Handlers : sessions[h] = {}) /\ [][C1_Step]_vars

C1_Witness ==
    /\ Handled("/admin/login")
    /\ last.resp.status = 302
    /\ last.pin # web_pin
    /\ Cardinality(sessions[last.h]) = 2

\* C2: a request to /admin or /admin/ returns status 200 and no redirect;
\* the page is the dashboard iff the session cookie's value is in the
\* handler's valid-session set, and the login form otherwise.
C2_AdminPage ==
    (Handled("/admin") \/ Handled("/admin/")) =>
        /\ last.resp.exc = ""
        /\ last.resp.status = 200
        /\ "Location" \notin DOMAIN last.resp.headers
        /\ last.resp.body.kind \in {"dashboard", "login_page"}
        /\ last.resp.body.kind = "dashboard"
               <=> last.session_id \in sessions[last.h]
        /\ last.resp.body.kind = "login_page" => last.resp.body.error = ""

C2_Witness ==
    /\ Handled("/admin/")
    /\ last.resp.body.kind = "dashboard"
    /\ sessions[last.h] # {last.session_id}

\* C3: /admin/api/status returns 401 with the JSON body {"error":
\* "Unauthorized"} when the session cookie is absent or not in the set, and
\* 200 with a JSON object of exactly the six documented fields when it is.
StatusFields ==
    {"uptime_seconds", "port", "session_count", "state", "device_lock",
     "tls_enabled"}

C3_ApiStatus ==
    Handled("/admin/api/status") =>
        /\ last.resp.exc = ""
        /\ last.resp.body.kind = "json"
        /\ last.resp.headers["Content-Type"] = "application/json"
        /\ IF last.session_id \in sessions[last.h]
           THEN /\ last.resp.status = 200
                /\ DOMAIN last.resp.body.json = StatusFields
           ELSE /\ last.resp.status = 401
                /\ DOMAIN last.resp.body.json = {"error"}
                /\ last.resp.body.json.error = "Unauthorized"

C3_Witness ==
    /\ Handled("/admin/api/status")
    /\ last.resp.status = 200
    /\ last.resp.body.json.state = "unknown"

\* C4: a /admin/login request whose PIN verifies returns 302 with Location
\* /admin, an empty body and a Set-Cookie whose token is in the handler's
\* set when the response is returned; the set has grown by exactly that
\* one token.
C4_LoginSuccess ==
    (Handled("/admin/login") /\ IsTrimOf(web_pin, last.pin)) =>
        /\ last.resp.exc = ""
        /\ last.resp.status = 302
        /\ last.resp.headers["Location"] = "/admin"
        /\ last.resp.body.kind = "empty"
        /\ CookieSet(last.resp) \in TokenSpace
        /\ CookieSet(last.resp) \in sessions[last.h]
        /\ CookieSet(last.resp) \notin last.before
        /\ sessions[last.h] = last.before \cup {CookieSet(last.resp)}

C4_Witness ==
    /\ Handled("/admin/login")
    /\ IsTrimOf(web_pin, last.pin)
    /\ last.before # {}
    /\ last.resp.status = 302

\* C5: a /admin/login request with a non-empty PIN that does not verify
\* returns the 200 login page with the error "Invalid PIN", sets no cookie
\* and leaves the valid-session set and the PIN as they were.
C5_LoginFailure ==
    (Handled("/admin/login") /\ Len(last.pin) > 0 /\ ~IsTrimOf(web_pin, last.pin)) =>
        /\ last.resp.exc = ""
        /\ last.resp.status = 200
        /\ last.resp.body.kind = "login_page"
        /\ last.resp.body.error = "Invalid PIN"
        /\ CookieSet(last.resp) = None
        /\ sessions[last.h] = last.before
        /\ web_pin = last.pin_before

\* C6: once a /admin/logout request bearing s is handled, s is out of the
\* handler's set and stays out until a login mints s; while it is out, a
\* request bearing s gets the login form on /admin and 401 on
\* /admin/api/status; a logout bearing a cookie that is not in the set
\* returns its redirect and leaves every session set as it was.
C6_Step ==
    /\ (last'.op = "handle_request" /\ last'.path = "/admin/logout"
            /\ last'.session_id \in TokenSpace)
           => /\ last'.session_id \notin sessions'[last'.h]
              /\ last'.resp.exc = ""
              /\ last'.resp.status = 302
              /\ last'.session_id \notin sessions[last'.h] => sessions' = sessions
    /\ \A h \in Handlers : \A s \in TokenSpace \ sessions[h] :
           /\ s \in sessions'[h] =>
                  (last'.op = "handle_request" /\ last'.h = h
                       /\ last'.path = "/admin/login" /\ CookieSet(last'.resp) = s)
           /\ (last'.op = "handle_request" /\ last'.h = h /\ last'.session_id = s) =>
                  /\ last'.path \in {"/admin", "/admin/"}
                         => last'.resp.body.kind = "login_page"
                  /\ last'.path = "/admin/api/status" => last'.resp.status = 401

C6_LogoutRevokes == [][C6_Step]_vars

\* a second logout of a token this handler minted: it is the only handler,
\* the token was minted and is no longer in the set when the logout starts
C6_Witness ==
    /\ Handled("/admin/logout")
    /\ constructed = {1}
    /\ last.session_id \in minted
    /\ last.session_id \notin last.before
    /\ last.before # {}
    /\ last.resp.status = 302

\* C7: every /admin/logout request returns 302 with Location /admin and a
\* Set-Cookie that clears darkcode_admin_session (empty value, Max-Age=0),
\* whatever session cookie the request carries.
C7_LogoutResponse ==
    Handled("/admin/logout") =>
        /\ last.resp.exc = ""
        /\ last.resp.status = 302
        /\ last.resp.headers["Location"] = "/admin"
        /\ "Set-Cookie" \in DOMAIN last.resp.headers
        /\ last.resp.headers["Set-Cookie"].name = "darkcode_admin_session"
        /\ last.resp.headers["Set-Cookie"].value = <<>>
        /\ "Max-Age=0" \in last.resp.headers["Set-Cookie"].attrs

C7_Witness ==
    /\ Handled("/admin/logout")
    /\ last.session_id \in TokenSpace \ minted
    /\ last.before # {}

\* C8: a token in a handler's set stays in it over every step other than a
\* /admin/logout request to that handler bearing it (PIN rotation, logins,
\* logouts of other tokens), and a request bearing it is authenticated: the
\* dashboard on /admin, 200 on /admin/api/status.
C8_Step ==
    \A h \in Handlers : \A s \in sessions[h] :
        /\ ~(last'.op = "handle_request" /\ last'.h = h
                 /\ last'.path = "/admin/logout" /\ last'.session_id = s)
               => s \in sessions'[h]
        /\ (last'.op = "handle_request" /\ last'.h = h /\ last'.session_id = s) =>
               /\ last'.path \in {"/admin", "/admin/"}
                      => last'.resp.body.kind = "dashboard"
               /\ last'.path = "/admin/api/status" => last'.resp.status = 200

C8_SessionLastsUntilLogout == [][C8_Step]_vars

C8_Witness ==
    /\ last.op = "regenerate_pin"
    /\ last.pin_before # web_pin
    /\ \E h \in Handlers : Cardinality(sessions[h]) = 2

\* C10: _verify_pin returns true iff its argument with leading and trailing
\* whitespace removed equals the current PIN, and returns false when no
\* PIN is set.
C10_VerifyPin ==
    last.op = "_verify_pin" =>
        /\ last.result = Returned(TRUE)
               <=> (web_pin # None /\ IsTrimOf(web_pin, last.pin))
        /\ web_pin = None => last.result = Returned(FALSE)

C10_Witness ==
    /\ last.op = "_verify_pin"
    /\ last.result = Returned(TRUE)
    /\ Len(last.pin) = Len(web_pin) + 2

\* C11: credential verification never raises: every /admin/login request,
\* whatever PIN string it carries, is answered with a response (the
\* redirect when the PIN verifies, a login page when it does not), and
\* every _verify_pin call returns a boolean.
C11_NeverRaises ==
    /\ Handled("/admin/login") =>
           /\ last.resp.exc = ""
           /\ last.resp.status \in {200, 302}
    /\ last.op = "_verify_pin" =>
           /\ last.result.exc = ""
           /\ last.result.value \in BOOLEAN

\* C12: the PIN is generated once and changes only through regenerate_pin:
\* a step that changes it either sets it for the first time (it was None,
\* and the step is a construction or get_web_pin) or is regenerate_pin;
\* constructing a further instance, get_web_pin and every HTTP request
\* leave a PIN that is set as it is.
C12_Step ==
    web_pin' # web_pin =>
        \/ /\ web_pin = None
           /\ last'.op \in {"__init__", "get_web_pin"}
           /\ web_pin' \in PINs
        \/ last'.op = "regenerate_pin"

C12_PinChangesOnlyByRegenerate == web_pin = None /\ [][C12_Step]_vars

\* a second instance is constructed while the PIN is set
C12_Witness ==
    /\ last.op = "__init__"
    /\ last.h = 2
    /\ last.pin_before \in PINs
    /\ web_pin = last.pin_before

\* C13: regenerate_pin returns the PIN that is current from then on, and a
\* login handled next, by whichever handler instance, is verified against
\* it only: a login with the returned PIN gets the redirect and a new
\* session in that handler's set, and a login with the PIN that was
\* current before, when the two differ, gets "Invalid PIN" and no session.
C13_Step ==
    /\ last'.op = "regenerate_pin" =>
           /\ last'.value \in PINs
           /\ web_pin' = last'.value
    /\ (last.op = "regenerate_pin" /\ last'.op = "handle_request"
            /\ last'.path = "/admin/login") =>
           /\ web_pin' = last.value
           /\ last'.pin = last.value =>
                  /\ last'.resp.status = 302
                  /\ CookieSet(last'.resp) \in sessions'[last'.h] \ sessions[last'.h]
           /\ (last'.pin = last.pin_before /\ last.pin_before # last.value) =>
                  /\ last'.resp.status = 200
                  /\ last'.resp.body.kind = "login_page"
                  /\ last'.resp.body.error = "Invalid PIN"
                  /\ CookieSet(last'.resp) = None
                  /\ sessions' = sessions

C13_LoginAgainstRegeneratedPin == [][C13_Step]_vars

\* regenerate_pin has replaced a PIN by a different one while two handler
\* instances exist
C13_Witness ==
    /\ last.op = "regenerate_pin"
    /\ last.pin_before \in PINs
    /\ last.value # last.pin_before
    /\ constructed = Handlers

\* C14: the valid-session set is process-wide: a request bearing a token
\* that a login handled by some instance minted (and no logout revoked) is
\* authenticated by whichever instance handles it, the dashboard on /admin
\* and 200 on /admin/api/status, and once a logout bearing the token is
\* handled by any instance the token is valid on no instance.
C14_ProcessWideSessions ==
    \A s \in TokenSpace :
        /\ (last.op = "handle_request" /\ last.session_id = s
                /\ \E h \in Handlers : s \in sessions[h]) =>
               /\ last.path \in {"/admin", "/admin/"}
                      => last.resp.body.kind = "dashboard"
               /\ last.path = "/admin/api/status" => last.resp.status = 200
        /\ (Handled("/admin/logout") /\ last.session_id = s) =>
               \A h \in Handlers : s \notin sessions[h]

\* C15: a process restart is a new run from Init, where `minted` is empty
\* and every handler is constructed anew.  A constructed handler starts
\* with an empty valid-session set, whatever cookies were issued before;
\* a request bearing a cookie this process has not issued, or handled by
\* an instance whose set is empty, gets the login form on /admin and 401
\* on /admin/api/status.  That lasts until a login succeeds: the set is
\* empty until then.
C15_RestartInvalidatesCookies ==
    /\ last.op = "__init__" => sessions[last.h] = {}
    /\ (last.op = "handle_request" /\ last.session_id \in TokenSpace
            /\ (last.session_id \notin minted \/ last.before = {})) =>
           /\ last.path \in {"/admin", "/admin/"} =>
                  /\ last.resp.status = 200
                  /\ last.resp.body.kind = "login_page"
           /\ last.path = "/admin/api/status" => last.resp.status = 401
    /\ (last.op = "handle_request" /\ last.before = {} /\ sessions[last.h] # {}) =>
           /\ last.path = "/admin/login"
           /\ last.resp.status = 302

\* the second instance, into which nobody has logged in, is presented a
\* cookie that is valid on the first and answers 401
C15_Witness ==
    /\ Handled("/admin/api/status")
    /\ last.h = 2
    /\ last.before = {}
    /\ last.session_id \in sessions[1]
    /\ minted = sessions[1]
    /\ last.resp.status = 401

\* the request was handled for a client whose cookie was in the handler's
\* valid-session set, on a path other than /admin/logout
AuthenticatedRequest ==
    /\ last.op = "handle_request"
    /\ last.path # "/admin/logout"
    /\ last.session_id \in last.before

\* C16 as stated: every request of a client whose cookie is in the
\* valid-session set, on a path other than /admin/logout, leaves the
\* session valid and is answered with the dashboard or the status JSON,
\* never with the login form or an error page.
C16_AlwaysLiveData ==
    AuthenticatedRequest =>
        /\ last.session_id \in sessions[last.h]
        /\ last.resp.exc = ""
        /\ last.resp.status = 200
        /\ last.resp.body.kind \in {"dashboard", "json"}

\* C16, amended: such a request leaves the session valid (the set only
\* grows); it is answered with live server data on /admin and /admin/ (the
\* dashboard) and on /admin/api/status (the six-field JSON), with the logo
\* on /admin/logo, with 404 on an unknown path, and on /admin/login as for
\* any other client: the login form without a PIN, the redirect with a new
\* session for the PIN.
C16_AuthenticatedStaysValid ==
    AuthenticatedRequest =>
        /\ last.session_id \in sessions[last.h]
        /\ last.before \subseteq sessions[last.h]
        /\ last.path \in {"/admin", "/admin/"} =>
               /\ last.resp.status = 200
               /\ last.resp.body.kind = "dashboard"
        /\ last.path = "/admin/api/status" =>
               /\ last.resp.status = 200
               /\ last.resp.body.kind = "json"
               /\ DOMAIN last.resp.body.json = StatusFields
        /\ last.path = "/admin/logo" =>
               /\ last.resp.status = 200
               /\ last.resp.body.kind = "logo_png"
        /\ last.path = "/admin/login" =>
               IF Len(last.pin) = 0
               THEN /\ last.resp.status = 200
                    /\ last.resp.body.kind = "login_page"
                    /\ last.resp.body.error = ""
               ELSE last.pin = web_pin =>
                        /\ last.resp.status = 302
                        /\ CookieSet(last.resp) \in sessions[last.h] \ last.before
        /\ last.path \notin {"/admin", "/admin/", "/admin/api/status",
                             "/admin/logo", "/admin/login"} =>
               last.resp.status = 404

\* a client with a valid session logs in again with the PIN: the handler
\* then holds both sessions
C16_Witness ==
    /\ Handled("/admin/login")
    /\ last.session_id \in last.before
    /\ last.resp.status = 302
    /\ Cardinality(sessions[last.h]) = 2

\* C17: a handle_request call leaves the config object, the PIN, the
\* server objects, the set of instances and the session set of every other
\* instance as they were.  The session set of the handling instance gains
\* exactly one element when the call is a login answered with the
\* redirect, loses at most one element (and gains none) when the call is a
\* logout, and is unchanged by every other call.
C17_Step ==
    last'.op = "handle_request" =>
        LET h == last'.h IN
        /\ config' = config
        /\ web_pin' = web_pin
        /\ server' = server
        /\ constructed' = constructed
        /\ \A g \in Handlers \ {h} : sessions'[g] = sessions[g]
        /\ IF last'.path = "/admin/login" /\ last'.resp.status = 302
           THEN /\ sessions[h] \subseteq sessions'[h]
                /\ Cardinality(sessions'[h]) = Cardinality(sessions[h]) + 1
           ELSE IF last'.path = "/admin/logout"
           THEN /\ sessions'[h] \subseteq sessions[h]
                /\ Cardinality(sessions'[h]) >= Cardinality(sessions[h]) - 1
           ELSE sessions'[h] = sessions[h]

C17_HandleRequestFrame == [][C17_Step]_vars

\* a logout on a handler that held two sessions has removed one of them
C17_Witness ==
    /\ Handled("/admin/logout")
    /\ Cardinality(last.before) = 2
    /\ Cardinality(sessions[last.h]) = 1
    /\ server[last.h] # NoServer

C19_SetCookie ==
    last.op = "handle_request" =>
        /\ "Set-Cookie" \in DOMAIN last.resp.headers
               <=> \/ last.path = "/admin/login" /\ last.resp.status = 302
                   \/ last.path = "/admin/logout" /\ last.resp.exc = ""
        /\ "Set-Cookie" \in DOMAIN last.resp.headers =>
               /\ last.resp.headers["Set-Cookie"].name = "darkcode_admin_session"
               /\ {"HttpOnly", "SameSite=Strict", "Path=/admin"}
                      \subseteq last.resp.headers["Set-Cookie"].attrs

\* a first login: the request carried no session cookie and the response
\* sets one
C19_Witness ==
    /\ Handled("/admin/login")
    /\ last.session_id = None
    /\ CookieSet(last.resp) \in TokenSpace
    /\ "HttpOnly" \in last.resp.headers["Set-Cookie"].attrs

\* C20: the PIN is the only credential of /admin/login.  A login request
\* adds a session to the handler's set iff its pin parameter, trimmed,
\* equals the current PIN; a request that carries a `token` parameter, be
\* it the config auth token, is answered as its pin parameter alone
\* decides: the login form when there is none, the redirect and one new
\* session when it verifies, "Invalid PIN" when it does not.
C20_PinIsTheOnlyCredential ==
    Handled("/admin/login") =>
        /\ sessions[last.h] # last.before <=> IsTrimOf(web_pin, last.pin)
        /\ last.token # None =>
               /\ last.resp.exc = ""
               /\ IF Len(last.pin) = 0
                  THEN /\ last.resp.status = 200
                       /\ last.resp.body.kind = "login_page"
                       /\ last.resp.body.error = ""
                       /\ CookieSet(last.resp) = None
                  ELSE IF last.pin = web_pin
                  THEN /\ last.resp.status = 302
                       /\ CookieSet(last.resp) \in TokenSpace \ last.before
                       /\ sessions[last.h] = last.before \cup {CookieSet(last.resp)}
                  ELSE /\ last.resp.status = 200
                       /\ last.resp.body.kind = "login_page"
                       /\ last.resp.body.error = "Invalid PIN"
                       /\ CookieSet(last.resp) = None

\* a login that carries the config auth token and a wrong PIN is answered
\* "Invalid PIN"
C20_Witness ==
    /\ Handled("/admin/login")
    /\ last.token = config.token
    /\ Len(last.pin) > 0
    /\ last.resp.body.kind = "login_page"
    /\ last.resp.body.error = "Invalid PIN"
    /\ sessions[last.h] = last.before

\* the tokens a step mints on handler h, and the tokens it revokes there
MintedBy(l, h) ==
    IF l.op = "handle_request" /\ l.h = h /\ l.path = "/admin/login"
           /\ l.resp.status = 302
    THEN {CookieSet(l.resp)}
    ELSE {}

RevokedBy(l, h) ==
    IF l.op = "handle_request" /\ l.h = h /\ l.path = "/admin/logout"
    THEN {l.session_id}
    ELSE {}

\* C21: requests are handled one at a time, in any order and from any
\* clients.  The sets start empty, and over every step the valid-session
\* set of each instance is the set before, plus the token the step minted
\* by a successful login there, minus the token the step's logout named:
\* so after every run it is the minted tokens minus those named by later
\* logouts.  A minted token is never minted again, so a logged-out session
\* does not reappear.
C21_Step ==
    \A h \in Handlers :
        /\ sessions'[h] = (sessions[h] \cup MintedBy(last', h)) \ RevokedBy(last', h)
        /\ MintedBy(last', h) \cap minted = {}
        /\ MintedBy(last', h) \subseteq minted'
        /\ minted \subseteq minted'

C21_SerialSessionSet ==
    (\A h \in Handlers : sessions[h] = {}) /\ minted = {} /\ [][C21_Step]_vars

\* a status request of one client is answered after another client's
\* session was minted and logged out on the same instance
C21_Witness ==
    /\ Handled("/admin/api/status")
    /\ last.resp.status = 200
    /\ \E s \in minted : s \notin sessions[last.h] /\ s # last.session_id
    /\ Cardinality(minted) = 2
    /\ constructed = {1}

\* ------------------------------------------------------------- login and rotation in two threads
\* handle_request takes no lock.  When regenerate_pin runs in another
\* thread, it can run between the _verify_pin call of a login (line 497)
\* and the add to the session set (line 500).  The login is split there:
\* `last` holds the login whose PIN has verified and whose session is not
\* yet added.

\* handle_request, lines 488-497, of a login: up to the return of
\* _verify_pin.  A login that does not verify writes nothing shared and is
\* completed at once.
LoginVerify(h, req) ==
    /\ last = Idle
    /\ h \in constructed
    /\ req.clean_path = "/admin/login"
    /\ LET pin == LoginPin(req.query_params, req.body) IN
       IF Len(pin) > 0 /\ VerifyPin(pin, web_pin) = Returned(TRUE)
       THEN /\ last' = [op |-> "login_verified", h |-> h, req |-> req,
                        pin |-> pin, pin_verified |-> web_pin]
            /\ UNCHANGED <<web_pin, constructed, sessions, server, config, minted>>
            /\ UNCHANGED menuvars
       ELSE LoginRoute(h, req)

\* regenerate_pin, lines 424-428, run by another thread while the login is
\* between verification and insertion
RegeneratePinDuringLogin ==
    /\ last.op = "login_verified"
    /\ \E p \in GenerateWebPin : web_pin' = p
    /\ UNCHANGED <<constructed, sessions, server, config, minted, last>>
    /\ UNCHANGED menuvars

\* handle_request, lines 498-508, of the login in `last`: the session is
\* minted and added, the redirect returned
LoginAdd ==
    /\ last.op = "login_verified"
    /\ \E session_cookie \in GenerateSessionCookie :
           Finish(last.h, last.req, LoginRedirect(session_cookie),
                  SetAdd(sessions[last.h], session_cookie),
                  minted \cup {session_cookie})

\* the caller takes the result of a completed call
ReturnCompleted ==
    /\ last.op # "login_verified"
    /\ Return

NextConcurrent ==
    \/ \E h \in Handlers : \E srv \in ServerArgs(h) : Construct(h, srv)
    \/ RegeneratePin
    \/ \E h \in Handlers, req \in Arriving : LoginVerify(h, req)
    \/ RegeneratePinDuringLogin
    \/ LoginAdd
    \/ ReturnCompleted

SpecConcurrent == Init /\ [][NextConcurrent]_vars

\* C22: PIN verification and session insertion of a login are atomic with
\* respect to PIN rotation: a step adds a session to a valid-session set
\* only if the PIN the login submitted, trimmed, equals the PIN that is
\* current when the session is added.
C22_Step ==
    \A h \in Handlers :
        sessions'[h] \ sessions[h] # {} =>
            /\ last'.op = "handle_request"
            /\ last'.path = "/admin/login"
            /\ IsTrimOf(web_pin', last'.pin)

C22_LoginAtomicWithRotation == [][C22_Step]_vars

\* ------------------------------------------------------------- SplitPaneTUI
\* The actions of _run_action that call code outside prompt_ui.py
\* (ServerConfig, GuestAccessManager, PersistentRateLimiter), which can
\* raise; the other actions only add output lines.
CallsOut ==
    {"status", "qr", "config", "guest_list", "security_status", "security_tls",
     "security_mtls", "security_device_lock", "security_reset_token",
     "security_blocked", "security_unbind"}

\* _guest_list and _show_blocked catch the exception themselves and
\* _run_action catches every other: either way the line is '[ERROR] ...'
ErrorLines == {"===", "[ERROR]"}

\* _toggle_tls, and execute_action("security_tls"): what is saved
ToggleTls(cfg) == [cfg EXCEPT !.tls_enabled = ~cfg.tls_enabled]

\* _toggle_mtls, and execute_action("security_mtls"): what is saved
ToggleMtls(cfg) ==
    IF ~cfg.mtls_enabled
    THEN [cfg EXCEPT !.mtls_enabled = TRUE, !.tls_enabled = TRUE]
    ELSE [cfg EXCEPT !.mtls_enabled = FALSE]

\* _toggle_device_lock, and execute_action("security_device_lock")
ToggleDeviceLock(cfg) == [cfg EXCEPT !.device_lock = ~cfg.device_lock]

\* the config file after the action has run to its end
Saved(action, cfg) ==
    IF action = "security_tls" THEN ToggleTls(cfg)
    ELSE IF action = "security_mtls" THEN ToggleMtls(cfg)
    ELSE IF action = "security_device_lock" THEN ToggleDeviceLock(cfg)
    ELSE cfg

\* the kinds of line an action leaves when it runs to its end (for
\* security_unbind: with a device bound)
LinesOf(action, cfg) ==
    IF action = "security_tls"
    THEN {"===", IF cfg.tls_enabled THEN "[OK]" ELSE "[WARN]"}
    ELSE IF action = "security_mtls"
    THEN {"===", IF cfg.mtls_enabled THEN "[OK]" ELSE "text"}
    ELSE IF action = "security_device_lock"
    THEN {"===", "text"} \cup (IF cfg.device_lock THEN {"[OK]"} ELSE {})
    ELSE IF action = "security_reset_token"
    THEN {"===", "[OK]", "text", "[WARN]"}
    ELSE IF action = "security_unbind"
    THEN {"===", "[OK]", "text"}
    ELSE {"===", "text"}

\* what every key event records
KeyEvent(key, action, raised) ==
    [op |-> "key", key |-> key, action |-> action, raised |-> raised,
     submenu |-> current_submenu, index |-> selected_index,
     was_running |-> running]

RunAction_ExitsOnError(key, action) ==
    /\ current_submenu' = current_submenu
    /\ IF action = "setup"
       THEN /\ output_lines' = {"===", "text"}
            /\ running' = FALSE
            /\ app_result' = ReturnsTuple("setup", "None")
            /\ last' = KeyEvent(key, action, FALSE)
            /\ UNCHANGED saved_config
       ELSE IF action \in {"direct", "tailscale", "ssh"}
       THEN /\ output_lines' = {"===", "text"}
            /\ running' = FALSE
            /\ app_result' = ReturnsTuple("start", action)
            /\ last' = KeyEvent(key, action, FALSE)
            /\ UNCHANGED saved_config
       ELSE \E raised \in (IF action \in CallsOut THEN BOOLEAN ELSE {FALSE}) :
                IF raised
                THEN /\ output_lines' = ErrorLines
                     /\ running' = FALSE
                     /\ app_result' = ReturnsNone
                     /\ last' = KeyEvent(key, action, TRUE)
                     /\ UNCHANGED saved_config
                ELSE /\ saved_config' = Saved(action, saved_config)
                     /\ output_lines' = LinesOf(action, saved_config')
                     /\ last' = KeyEvent(key, action, FALSE)
                     /\ UNCHANGED <<running, app_result>>

\* SplitPaneTUI._run_action(action), with _start_server and the actions
\* it calls.  selected_index is left to the caller.
RunAction(key, action) ==
    /\ current_submenu' = current_submenu
    /\ IF action = "setup"
       THEN /\ output_lines' = {"===", "text"}
            /\ running' = FALSE
            /\ app_result' = ReturnsTuple("setup", "None")
            /\ last' = KeyEvent(key, action, FALSE)
            /\ UNCHANGED saved_config
       ELSE IF action \in {"direct", "tailscale", "ssh"}
       THEN /\ output_lines' = {"===", "text"}
            /\ running' = FALSE
            /\ app_result' = ReturnsTuple("start", action)
            /\ last' = KeyEvent(key, action, FALSE)
            /\ UNCHANGED saved_config
       ELSE \E raised \in (IF action \in CallsOut THEN BOOLEAN ELSE {FALSE}) :
                IF raised
                THEN /\ output_lines' = ErrorLines
                     /\ last' = KeyEvent(key, action, TRUE)
                     /\ UNCHANGED <<saved_config, running, app_result>>
                ELSE /\ saved_config' = Saved(action, saved_config)
                     /\ output_lines' = LinesOf(action, saved_config')
                     /\ last' = KeyEvent(key, action, FALSE)
                     /\ UNCHANGED <<running, app_result>>

\* the handlers of q, escape and b inside a submenu, and the 'back' entry
BackToMain(key, action) ==
    /\ current_submenu' = NoSubmenu
    /\ selected_index' = 0
    /\ last' = KeyEvent(key, action, FALSE)
    /\ UNCHANGED <<saved_config, running, output_lines, app_result>>

\* the handlers of q and escape in the main menu, and the 'quit' entry
Exit(key, action) ==
    /\ running' = FALSE
    /\ app_result' = ReturnsNone
    /\ last' = KeyEvent(key, action, FALSE)
    /\ UNCHANGED <<saved_config, current_submenu, output_lines>>

\* SplitPaneTUI._execute_selection with selected_index = index
ExecuteSelection(key, index) ==
    LET menu == CurrentMenu(current_submenu) IN
    IF index >= Len(menu)
    THEN /\ selected_index' = index
         /\ last' = KeyEvent(key, "none", FALSE)
         /\ UNCHANGED <<saved_config, current_submenu, running, output_lines,
                        app_result>>
    ELSE LET action == menu[index + 1] IN
         IF action = "quit"
         THEN selected_index' = index /\ Exit(key, action)
         ELSE IF action = "back"
         THEN BackToMain(key, action)
         ELSE IF action \in {"guest", "security"}
         THEN /\ current_submenu' = action
              /\ selected_index' = 0
              /\ last' = KeyEvent(key, action, FALSE)
              /\ UNCHANGED <<saved_config, running, output_lines, app_result>>
         ELSE IF action = "start"
         THEN /\ current_submenu' = "connection"
              /\ selected_index' = 0
              /\ output_lines' = output_lines \cup {"==="}
              /\ last' = KeyEvent(key, action, FALSE)
              /\ UNCHANGED <<saved_config, running, app_result>>
         ELSE selected_index' = index /\ RunAction(key, action)

\* the application takes key events while it runs; a process runs one of
\* the two implementations of run_interactive_menu
TuiReady ==
    /\ last = Idle \/ last.op = "key"
    /\ running
    /\ UNCHANGED <<webvars, menu_at, menu_result>>

Move(key, to) ==
    /\ selected_index' = to
    /\ last' = KeyEvent(key, "none", FALSE)
    /\ UNCHANGED <<saved_config, current_submenu, running, output_lines, app_result>>

\* _build_app: the key bindings
KeyUp ==
    /\ TuiReady
    /\ Move("up", (selected_index - 1) % Len(CurrentMenu(current_submenu)))

KeyDown ==
    /\ TuiReady
    /\ Move("down", (selected_index + 1) % Len(CurrentMenu(current_submenu)))

KeyEnter == TuiReady /\ ExecuteSelection("enter", selected_index)

KeyQ ==
    /\ TuiReady
    /\ IF current_submenu # NoSubmenu
       THEN BackToMain("q", "none")
       ELSE selected_index' = selected_index /\ Exit("q", "none")

KeyEscape ==
    /\ TuiReady
    /\ IF current_submenu # NoSubmenu
       THEN BackToMain("escape", "none")
       ELSE selected_index' = selected_index /\ Exit("escape", "none")

DigitKeys == 1..9

KeyDigit_NoLengthCheck(idx) ==
    /\ TuiReady
    /\ ExecuteSelection(ToString(idx), idx - 1)

\* the handler bound to the key str(idx)
KeyDigit(idx) ==
    /\ TuiReady
    /\ IF idx <= Len(CurrentMenu(current_submenu))
       THEN ExecuteSelection(ToString(idx), idx - 1)
       ELSE /\ last' = KeyEvent(ToString(idx), "none", FALSE)
            /\ UNCHANGED <<saved_config, selected_index, current_submenu, running,
                           output_lines, app_result>>

KeyB ==
    /\ TuiReady
    /\ IF current_submenu # NoSubmenu
       THEN BackToMain("b", "none")
       ELSE /\ last' = KeyEvent("b", "none", FALSE)
            /\ UNCHANGED <<saved_config, selected_index, current_submenu, running,
                           output_lines, app_result>>

\* ------------------------------------------- the simple-term-menu version
\* (build/lib/darkcode_server/prompt_ui.py)
\* What the user types at the prompts of an action: nothing that matters,
\* digits, or text that is not a number.
Typed == {"default", "digits", "letters"}

\* what every menu choice records
MenuEvent(choice, typed) ==
    [op |-> "menu", at |-> menu_at, choice |-> choice, typed |-> typed,
     was_pending |-> (menu_result = Pending)]

\* int(new_port) in "config", int(expires) and int(max_uses) in
\* "guest_create": ValueError on text that is not a number
IntRaises(action, typed) ==
    action \in {"config", "guest_create"} /\ typed = "letters"

\* execute_action(action) called from the loop of run_interactive_menu,
\* which has no exception handler
ExecuteAction(choice, action, typed) ==
    /\ menu_at' = menu_at
    /\ last' = MenuEvent(choice, typed)
    /\ IF IntRaises(action, typed)
       THEN menu_result' = Raises("ValueError") /\ UNCHANGED saved_config
       ELSE /\ saved_config' = Saved(action, saved_config)
            /\ UNCHANGED menu_result

\* show_menu: the value chosen, None for escape and for the back entry
ShowMenu(options, choice) ==
    IF choice = "escape" \/ choice = "back" THEN "None" ELSE choice

\* the entries a menu offers, with escape
Choices(menu) == {menu[i] : i \in 1..Len(menu)} \cup {"escape"}

\* show_main_menu
ShowMainMenu(choice) ==
    LET result == ShowMenu(main_menu, choice) IN
    IF result = "quit" THEN "None" ELSE result

\* show_connection_menu: Tailscale is offered when an address is detected
ShowConnectionMenu(choice, tailscale_ip) ==
    LET result == ShowMenu(connection_menu,
                           IF choice = "tailscale" /\ ~tailscale_ip
                           THEN "tailscale_disabled" ELSE choice) IN
    IF result = "tailscale_disabled" THEN "None" ELSE result

\* the loop runs until run_interactive_menu returns or raises
MenuReady(at) ==
    /\ last = Idle \/ last.op = "menu"
    /\ menu_result = Pending
    /\ menu_at = at
    /\ UNCHANGED <<webvars, selected_index, current_submenu, running,
                   output_lines, app_result>>

\* run_interactive_menu: one turn of the outer loop at the main menu
MainChoice(choice) ==
    /\ MenuReady("main")
    /\ LET action == ShowMainMenu(choice) IN
       IF action = "None"
       THEN /\ menu_result' = ReturnsNone
            /\ last' = MenuEvent(choice, "default")
            /\ UNCHANGED <<saved_config, menu_at>>
       ELSE IF action = "start"
       THEN /\ menu_at' = "connection"
            /\ last' = MenuEvent(choice, "default")
            /\ UNCHANGED <<saved_config, menu_result>>
       ELSE IF action \in {"guest", "security"}
       THEN /\ menu_at' = action
            /\ last' = MenuEvent(choice, "default")
            /\ UNCHANGED <<saved_config, menu_result>>
       ELSE IF action = "setup"
       THEN /\ menu_result' = ReturnsTuple("setup", "None")
            /\ last' = MenuEvent(choice, "default")
            /\ UNCHANGED <<saved_config, menu_at>>
       ELSE \E typed \in Typed : ExecuteAction(choice, action, typed)

\* run_interactive_menu: action == "start"
ConnectionChoice(choice, tailscale_ip) ==
    /\ MenuReady("connection")
    /\ LET mode == ShowConnectionMenu(choice, tailscale_ip) IN
       /\ last' = MenuEvent(choice, IF tailscale_ip THEN "ip" ELSE "no ip")
       /\ UNCHANGED saved_config
       /\ IF mode # "None"
          THEN menu_result' = ReturnsTuple("start", mode) /\ UNCHANGED menu_at
          ELSE menu_at' = "main" /\ UNCHANGED menu_result

\* run_interactive_menu: one turn of the inner loop of "guest" or "security"
SubmenuChoice(at, choice) ==
    /\ MenuReady(at)
    /\ LET action == ShowMenu(CurrentMenu(at), choice) IN
       IF action = "None"
       THEN /\ menu_at' = "main"
            /\ last' = MenuEvent(choice, "default")
            /\ UNCHANGED <<saved_config, menu_result>>
       ELSE \E typed \in Typed : ExecuteAction(choice, action, typed)

\* the entries of show_security_menu
SecurityOptions ==
    Choices(security_menu) \ {"security_status"}

NextMenu ==
    \/ KeyUp
    \/ KeyDown
    \/ KeyEnter
    \/ KeyQ
    \/ KeyEscape
    \/ \E idx \in DigitKeys : KeyDigit(idx)
    \/ KeyB
    \/ \E choice \in Choices(main_menu) : MainChoice(choice)
    \/ \E choice \in Choices(connection_menu), tailscale_ip \in BOOLEAN :
           ConnectionChoice(choice, tailscale_ip)
    \/ \E choice \in Choices(guest_menu) : SubmenuChoice("guest", choice)
    \/ \E choice \in SecurityOptions : SubmenuChoice("security", choice)

\* the menu is started over any config file in which mTLS is disabled
InitMenu ==
    /\ web_pin = None
    /\ constructed = {}
    /\ sessions = [h \in Handlers |-> {}]
    /\ server = [h \in Handlers |-> NoServer]
    /\ config \in Configs
    /\ minted = {}
    /\ last = Idle
    /\ MenuStart
    /\ saved_config \in {cfg \in SavedConfigs : ~cfg.mtls_enabled}

SpecMenu == InitMenu /\ [][NextMenu]_vars

\* ------------------------------------------------------------- C24
\* the values run_interactive_menu may return
MenuReturns ==
    {ReturnsNone, ReturnsTuple("setup", "None")}
    \cup {ReturnsTuple("start", m) : m \in {"direct", "tailscale", "ssh"}}

\* what the claim gives for the last choice made in the simple-term-menu
\* version: None for quitting, a tuple for setup and for a connection
\* mode that is offered, and no return otherwise
MenuReturnOf(l) ==
    IF l.at = "main" /\ l.choice \in {"quit", "escape"} THEN ReturnsNone
    ELSE IF l.at = "main" /\ l.choice = "setup" THEN ReturnsTuple("setup", "None")
    ELSE IF l.at = "connection" /\ l.choice \in {"direct", "ssh"}
    THEN ReturnsTuple("start", l.choice)
    ELSE IF l.at = "connection" /\ l.choice = "tailscale" /\ l.typed = "ip"
    THEN ReturnsTuple("start", l.choice)
    ELSE Pending

\* the same for the last key handled by SplitPaneTUI
AppReturnOf(l) ==
    IF l.action = "quit" THEN ReturnsNone
    ELSE IF l.submenu = NoSubmenu /\ l.key \in {"q", "escape"} THEN ReturnsNone
    ELSE IF l.action = "setup" THEN ReturnsTuple("setup", "None")
    ELSE IF l.action \in {"direct", "tailscale", "ssh"}
    THEN ReturnsTuple("start", l.action)
    ELSE Pending

\* C24: in both implementations run_interactive_menu returns None exactly
\* when the user quits, ('start', m) with m in {direct, tailscale, ssh} or
\* ('setup', None) otherwise, and every other menu action keeps the menu
\* running without a return value.
C24_MenuReturn ==
    /\ menu_result \in MenuReturns \cup {Pending}
    /\ app_result \in MenuReturns \cup {Pending}
    /\ last # Idle /\ last.op = "menu" => menu_result = MenuReturnOf(last)
    /\ last # Idle /\ last.op = "key" => app_result = AppReturnOf(last)

\* ------------------------------------------------------------- C25
\* C25: starting from a saved config in which mTLS is disabled, after any
\* sequence of Toggle TLS, Toggle mTLS and Toggle Device Lock the saved
\* config has TLS enabled whenever it has mTLS enabled.
C25_MtlsImpliesTls == saved_config.mtls_enabled => saved_config.tls_enabled

\* ------------------------------------------------------------- C26
\* C26: a /admin/logout request bearing session cookie s removes at most s
\* from the valid-session set: every other session of the set is still in
\* it afterwards, nothing is added, and a logout with no cookie or with a
\* cookie that is not in the set leaves the set as it was.
C26_LogoutRemovesOnlyItsSession ==
    Handled("/admin/logout") =>
        /\ last.before \ {last.session_id} \subseteq sessions[last.h]
        /\ sessions[last.h] \subseteq last.before
        /\ last.session_id \notin last.before => sessions[last.h] = last.before

\* a logout bearing one of two valid sessions has left the other one
C26_Witness ==
    /\ Handled("/admin/logout")
    /\ last.session_id \in last.before
    /\ sessions[last.h] = last.before \ {last.session_id}
    /\ sessions[last.h] # {}

\* ------------------------------------------------------------- C27
\* What a handled request must have produced, computed from the path, the
\* session cookie, the PIN and the state it was handled in, and from
\* nothing else: the exception, the status, the kind of body.
ClassOf(exc, status, kind) == [exc |-> exc, status |-> status, kind |-> kind]

ExpectedClass(path, session_id, pin, before, pin_before) ==
    IF path \in {"/admin", "/admin/"}
    THEN ClassOf("", 200, IF session_id \in before THEN "dashboard" ELSE "login_page")
    ELSE IF path = "/admin/logo" THEN ClassOf("", 200, "logo_png")
    ELSE IF path = "/admin/login"
    THEN IF pin = <<>> THEN ClassOf("", 200, "login_page")
         ELSE IF ~IsAscii(Strip(pin)) THEN ClassOf("TypeError", 0, "none")
         ELSE IF IsTrimOf(pin_before, pin) THEN ClassOf("", 302, "empty")
         ELSE ClassOf("", 200, "login_page")
    ELSE IF path = "/admin/logout" THEN ClassOf("", 302, "empty")
    ELSE IF path = "/admin/api/status"
    THEN IF session_id \in before THEN ClassOf("", 200, "json")
         ELSE ClassOf("", 401, "json")
    ELSE ClassOf("", 404, "Not Found")

\* and the session set it must have left
ExpectedSessions(path, session_id, before, resp) ==
    IF path = "/admin/login" /\ resp.status = 302
    THEN before \cup {CookieSet(resp)}
    ELSE IF path = "/admin/logout" THEN before \ {session_id}
    ELSE before

\* C27: the outcome of handle_request does not depend on the HTTP method:
\* response class and next state are those given by the path, the cookie,
\* the PIN and the state alone, whichever the method.  So a GET to
\* /admin/login with a valid pin mints a session and a GET to
\* /admin/logout revokes one.
C27_MethodIndependent ==
    last.op = "handle_request" =>
        \A m \in Methods :
            last.method = m =>
                /\ ClassOf(last.resp.exc, last.resp.status, last.resp.body.kind)
                       = ExpectedClass(last.path, last.session_id, last.pin,
                                       last.before, last.pin_before)
                /\ sessions[last.h]
                       = ExpectedSessions(last.path, last.session_id,
                                          last.before, last.resp)
                /\ last.path = "/admin/login" /\ last.resp.status = 302
                       => CookieSet(last.resp) \notin last.before

\* a GET to /admin/login with the valid PIN has minted a session
C27_Witness ==
    /\ Handled("/admin/login")
    /\ last.method = "GET"
    /\ last.pin = last.pin_before
    /\ last.resp.status = 302
    /\ Cardinality(sessions[last.h]) = Cardinality(last.before) + 1

\* ------------------------------------------------------------- C28
\* the PIN the claim says a login is decided on: the one of the query when
\* the query has one, else the one of the body
DecidingPin(l) == IF l.query_pin # <<>> THEN l.query_pin ELSE l.body_pin

\* C28: on /admin/login the PIN of the query string takes precedence over
\* the form body.  With a pin in the query the outcome is the one of that
\* pin alone: a wrong query PIN with a correct body PIN mints no session
\* and a correct query PIN with a wrong body PIN mints one.  The body PIN
\* decides only when the query has none, and a request with neither gets
\* the login form without an error and changes nothing.
C28_QueryPinFirst ==
    Handled("/admin/login") =>
        /\ ClassOf(last.resp.exc, last.resp.status, last.resp.body.kind)
               = ExpectedClass(last.path, last.session_id, DecidingPin(last),
                               last.before, last.pin_before)
        /\ last.resp.status # 302 => sessions[last.h] = last.before
        /\ last.resp.status = 302 =>
               /\ sessions[last.h] = last.before \cup {CookieSet(last.resp)}
               /\ CookieSet(last.resp) \notin last.before
        /\ last.query_pin # <<>> /\ ~IsTrimOf(last.pin_before, last.query_pin)
               => last.resp.status # 302
        /\ last.query_pin # <<>> /\ IsTrimOf(last.pin_before, last.query_pin)
               => last.resp.status = 302
        /\ last.query_pin = <<>> /\ last.body_pin = <<>>
               => last.resp = LoginPage("")

\* a login with the correct PIN in the query and a wrong PIN in the body
\* has minted a session
C28_Witness ==
    /\ Handled("/admin/login")
    /\ last.query_pin = last.pin_before
    /\ last.body_pin # <<>>
    /\ last.body_pin # last.pin_before
    /\ last.resp.status = 302
    /\ sessions[last.h] # last.before

\* ------------------------------------------------------------- C29
\* the digit keys that select nothing in a menu
DigitsBeyond(menu) == {ToString(i) : i \in {d \in DigitKeys : d > Len(menu)}}

C29_Step ==
    /\ 0 <= selected_index'
    /\ selected_index' < Len(CurrentMenu(current_submenu'))
    /\ current_submenu' # current_submenu => selected_index' = 0
    /\ (/\ last'.op = "key"
        /\ last'.key \in DigitsBeyond(CurrentMenu(current_submenu)))
           => UNCHANGED <<saved_config, selected_index, current_submenu, running,
                          output_lines, app_result>>

\* C29: in SplitPaneTUI, after any sequence of key events the selection
\* index is at least 0 and less than the length of the current menu; every
\* change of current_submenu resets it to 0, and a digit key larger than
\* the length of the current menu leaves the state as it was.
C29_SelectionInRange ==
    /\ selected_index = 0
    /\ [][C29_Step]_vars

\* the key 6 pressed on the last entry of the five-entry guest menu
C29_Witness ==
    /\ last.op = "key"
    /\ last.key = "6"
    /\ current_submenu = "guest"
    /\ selected_index = Len(guest_menu) - 1

\* ------------------------------------------------------------- C30
C30_Step ==
    /\ running /\ ~running' =>
           /\ last'.op = "key"
           /\ \/ last'.submenu = NoSubmenu /\ last'.key \in {"q", "escape"}
              \/ last'.action \in {"quit", "setup", "direct", "tailscale", "ssh"}
    /\ (/\ last'.op = "key"
        /\ last'.key \in {"q", "escape", "b"}
        /\ current_submenu # NoSubmenu)
           => /\ current_submenu' = NoSubmenu
              /\ running'
              /\ app_result' = Pending
    /\ last'.op = "key" /\ last'.raised
           => /\ "[ERROR]" \in output_lines'
              /\ running'
              /\ app_result' = Pending
    /\ ~running => ~running'

\* C30: in SplitPaneTUI running becomes False only through q or escape
\* pressed in the main menu, the Quit entry, the Setup Wizard entry or the
\* choice of a connection mode; q, escape and b pressed inside a submenu
\* lead back to the main menu without exiting, an action that raises an
\* exception leaves an [ERROR] line without exiting, and once running is
\* False it stays False.
C30_ExitsOnlyByChoice ==
    /\ running = TRUE
    /\ [][C30_Step]_vars

\* Toggle TLS has raised in the security menu: the error is shown and the
\* application runs on
C30_Witness ==
    /\ last.op = "key"
    /\ last.action = "security_tls"
    /\ last.raised
    /\ "[ERROR]" \in output_lines
    /\ current_submenu = "security"
    /\ running

=============================================================================
